---- MODULE Spec2Model ----
(***************************************************************************)
(* Model of engine_tester: processor.py (route resolution, discovery,      *)
(* response-path derivation, load/save, relay_requests) and server.py      *)
(* (the POST /api/enginepost handler).                                      *)
(*                                                                         *)
(* Strings are TLA+ strings; Len, \o and SubSeq are applied to them, so a   *)
(* character of s is SubSeq(s, i, i).  A Path is a sequence of segments,    *)
(* the last one being the file name.                                        *)
(***************************************************************************)
EXTENDS Integers, Sequences, FiniteSets, TLC

VARIABLES
    r_base, r_path, r_pc, r_result,   \* one call of resolve_post_url
    d_dir, d_pc, d_first, d_second,   \* resolve_directory called on its own result
    caller,            \* who runs relay_requests: the endpoint or a direct call
    inputfolder,       \* the endpoint's inputfolder parameter
    target_url,        \* engineurl / target_url
    directory,         \* the directory relay_requests scans
    fs,                \* the file system: Path -> bytes of the file
    pc,                \* the statement the run is at
    files, idx,        \* the discovered request files and the loop position
    payload, post_url, response, response_payload, response_path,
    processed,         \* the ProcessedFile records
    owns_client,       \* relay_requests created the client
    closes,            \* how often client.close() was called
    posts,             \* the calls of client.post, in order
    writes,            \* the paths opened for writing, in order
    exc,               \* the exception unwinding out of relay_requests
    summary,           \* the ProcessSummary returned
    http               \* the endpoint's HTTP response

routeVars == <<r_base, r_path, r_pc, r_result>>

dirVars == <<d_dir, d_pc, d_first, d_second>>

inputVars == <<caller, inputfolder, target_url>>

localVars == <<payload, post_url, response, response_payload, response_path>>

runVars == <<caller, inputfolder, target_url, directory, fs, pc, files, idx,
             payload, post_url, response, response_payload, response_path,
             processed, owns_client, closes, posts, writes, exc, summary, http>>

vars == <<r_base, r_path, r_pc, r_result, d_dir, d_pc, d_first, d_second, caller, inputfolder, target_url, directory,
          fs, pc, files, idx, payload, post_url, response, response_payload,
          response_path, processed, owns_client, closes, posts, writes, exc, summary,
          http>>

-----------------------------------------------------------------------------
(* String helpers (str.startswith, str.endswith, "in", str.rstrip, slices) *)

StartsWith(s, p) == Len(s) >= Len(p) /\ SubSeq(s, 1, Len(p)) = p

EndsWith(s, p) == Len(s) >= Len(p) /\ SubSeq(s, Len(s) - Len(p) + 1, Len(s)) = p

DropFirst(s, n) == SubSeq(s, n + 1, Len(s))

DropLast(s, n) == SubSeq(s, 1, Len(s) - n)

\* the one element of a singleton set; { e(x) : x \in {v} } computes v once
Only(S) == CHOOSE x \in S : TRUE

Contains(s, p) ==
    \E x \in {s} : \E i \in 1..(Len(x) - Len(p) + 1) : SubSeq(x, i, i + Len(p) - 1) = p

\* index of the first occurrence of the one-character string c in s, 0 if none
FindChar(s, c) ==
    LET Find(x) == LET hits == {i \in 1..Len(x) : SubSeq(x, i, i) = c}
                   IN IF hits = {} THEN 0 ELSE CHOOSE i \in hits : \A j \in hits : i <= j
    IN Only({Find(x) : x \in {s}})

\* str.rstrip('/'): every trailing '/' is removed
RStripSlash(s) ==
    LET Strip(x) == SubSeq(x, 1, CHOOSE k \in 0..Len(x) :
                                    /\ k = 0 \/ SubSeq(x, k, k) # "/"
                                    /\ \A j \in (k + 1)..Len(x) : SubSeq(x, j, j) = "/")
    IN Only({Strip(x) : x \in {s}})

\* str.lower() on the letters the model's URLs use in upper case
LowerChar(c) ==
    CASE c = "H" -> "h"
      [] c = "T" -> "t"
      [] c = "P" -> "p"
      [] OTHER -> c

RECURSIVE LowerFrom(_, _)
LowerFrom(s, i) ==
    IF i > Len(s) THEN "" ELSE LowerChar(SubSeq(s, i, i)) \o LowerFrom(s, i + 1)

Lower(s) == LowerFrom(s, 1)

-----------------------------------------------------------------------------
(* urllib.parse.urlsplit / urlunsplit, as called by resolve_post_url       *)

\* end of the authority: first of '/', '?', '#' in s, or Len(s) + 1
NetlocEnd(s) ==
    LET End(x) == LET stops == {i \in 1..Len(x) : SubSeq(x, i, i) \in {"/", "?", "#"}}
                  IN IF stops = {} THEN Len(x) + 1
                     ELSE CHOOSE i \in stops : \A j \in stops : i <= j
    IN Only({End(x) : x \in {s}})

urlsplit(url) ==
    LET colon    == FindChar(url, ":")
        scheme   == IF colon > 1 THEN Lower(SubSeq(url, 1, colon - 1)) ELSE ""
        rest0    == IF colon > 1 THEN DropFirst(url, colon) ELSE url
        hasNet   == StartsWith(rest0, "//")
        afterSl  == DropFirst(rest0, 2)
        netEnd   == NetlocEnd(afterSl)
        netloc   == IF hasNet THEN SubSeq(afterSl, 1, netEnd - 1) ELSE ""
        rest1    == IF hasNet THEN DropFirst(afterSl, netEnd - 1) ELSE rest0
        hash     == FindChar(rest1, "#")
        fragment == IF hash > 0 THEN DropFirst(rest1, hash) ELSE ""
        rest2    == IF hash > 0 THEN SubSeq(rest1, 1, hash - 1) ELSE rest1
        qm       == FindChar(rest2, "?")
        query    == IF qm > 0 THEN DropFirst(rest2, qm) ELSE ""
        path     == IF qm > 0 THEN SubSeq(rest2, 1, qm - 1) ELSE rest2
    IN [scheme |-> scheme, netloc |-> netloc, path |-> path,
        query |-> query, fragment |-> fragment]

urlunsplit(scheme, netloc, path, query, fragment) ==
    LET rooted == IF path # "" /\ ~StartsWith(path, "/") THEN "/" \o path ELSE path
        u1 == IF netloc # "" \/ (scheme \in {"http", "https"} /\ ~StartsWith(path, "//"))
              THEN "//" \o netloc \o rooted
              ELSE path
        u2 == IF scheme # "" THEN scheme \o ":" \o u1 ELSE u1
        u3 == IF query # "" THEN u2 \o "?" \o query ELSE u2
    IN IF fragment # "" THEN u3 \o "#" \o fragment ELSE u3

-----------------------------------------------------------------------------
(* _IDOU_ROUTE_RULES and resolve_post_url                                   *)

\* the rule table with both rules for '15_2' present
IDOU_ROUTE_RULES_both_15_2 ==
    << [prefix |-> "03",   suffix |-> "chkkeiyakuOver"],
       [prefix |-> "05",   suffix |-> "jissekicalc"],
       [prefix |-> "06",   suffix |-> "adjustget"],
       [prefix |-> "08",   suffix |-> "jissekiif"],
       [prefix |-> "09",   suffix |-> "jissekirep"],
       [prefix |-> "11",   suffix |-> "kekkarep"],
       [prefix |-> "15_1", suffix |-> "meisaiif"],
       [prefix |-> "15_2", suffix |-> "meisairep"],
       [prefix |-> "15_2", suffix |-> "meisaiif"] >>

\* the rule table in declaration order: the literal each pattern starts
\* with, and the suffix of the rule
IDOU_ROUTE_RULES ==
    << [prefix |-> "03",   suffix |-> "chkkeiyakuOver"],
       [prefix |-> "05",   suffix |-> "jissekicalc"],
       [prefix |-> "06",   suffix |-> "adjustget"],
       [prefix |-> "08",   suffix |-> "jissekiif"],
       [prefix |-> "09",   suffix |-> "jissekirep"],
       [prefix |-> "11",   suffix |-> "kekkarep"],
       [prefix |-> "15_1", suffix |-> "meisaiif"],
       [prefix |-> "15_2", suffix |-> "meisaiif"] >>

\* the ending with an optional digit 3: '_req3?\.json$'
MatchReqEndLoose(s) == s \in {"_req.json", "_req.json\n", "_req3.json", "_req3.json\n"}

\* '_req\.json$': '$' matches at the end and before one trailing newline
MatchReqEnd(s) == s = "_req.json" \/ s = "_req.json\n"

\* '.*' matches any run of characters other than a newline
NoNewline(s) == \A x \in {s} : \A i \in 1..Len(x) : SubSeq(x, i, i) # "\n"

\* re.compile(r"^<prefix>(?:_.*)?_req\.json$").match(filename)
PatternMatch(prefix, filename) ==
    /\ StartsWith(filename, prefix)
    /\ \E rest \in {DropFirst(filename, Len(prefix))} :
          \/ MatchReqEnd(rest)
          \/ /\ StartsWith(rest, "_")
             /\ \E k \in 0..(Len(rest) - 1) :
                   /\ NoNewline(SubSeq(rest, 2, 1 + k))
                   /\ MatchReqEnd(DropFirst(rest, 1 + k))

\* Path.name
Name(path) == path[Len(path)]

\* indices of the rules whose pattern matches the file name
MatchingRules(filename) ==
    {i \in 1..Len(IDOU_ROUTE_RULES) : PatternMatch(IDOU_ROUTE_RULES[i].prefix, filename)}

\* resolve_post_url using the rule the loop ended on when none matched
resolve_post_url_last_rule(base_url, request_path) ==
    LET parts == urlsplit(base_url)
        hits  == MatchingRules(Name(request_path))
        rule  == IF hits = {} THEN Len(IDOU_ROUTE_RULES)
                 ELSE CHOOSE i \in hits : \A j \in hits : i <= j
    IN IF ~Contains(parts.path, "/idou/") THEN base_url
       ELSE urlunsplit(parts.scheme, parts.netloc,
                       RStripSlash(parts.path) \o "/" \o IDOU_ROUTE_RULES[rule].suffix,
                       parts.query, parts.fragment)

\* resolve_post_url appending to the base path as it is, trailing slash kept
resolve_post_url_unstripped(base_url, request_path) ==
    LET parts == urlsplit(base_url)
        hits  == MatchingRules(Name(request_path))
    IN IF ~Contains(parts.path, "/idou/") THEN base_url
       ELSE IF hits = {} THEN base_url
       ELSE LET first    == CHOOSE i \in hits : \A j \in hits : i <= j
                new_path == parts.path \o "/" \o IDOU_ROUTE_RULES[first].suffix
            IN urlunsplit(parts.scheme, parts.netloc, new_path, parts.query, parts.fragment)

\* resolve_post_url without the '/idou/' scope test
resolve_post_url_unscoped(base_url, request_path) ==
    LET parts == urlsplit(base_url)
        hits  == MatchingRules(Name(request_path))
    IN IF hits = {} THEN base_url
       ELSE LET first    == CHOOSE i \in hits : \A j \in hits : i <= j
                new_path == RStripSlash(parts.path) \o "/" \o IDOU_ROUTE_RULES[first].suffix
            IN urlunsplit(parts.scheme, parts.netloc, new_path, parts.query, parts.fragment)

resolve_post_url(base_url, request_path) ==
    LET parts    == urlsplit(base_url)
        filename == Name(request_path)
        hits     == MatchingRules(filename)
    IN IF ~Contains(parts.path, "/idou/") THEN base_url
       ELSE IF hits = {} THEN base_url
       ELSE LET first    == CHOOSE i \in hits : \A j \in hits : i <= j
                new_path == RStripSlash(parts.path) \o "/" \o IDOU_ROUTE_RULES[first].suffix
            IN urlunsplit(parts.scheme, parts.netloc, new_path, parts.query, parts.fragment)

-----------------------------------------------------------------------------
(* Paths: a Path is the sequence of the segments of an absolute path        *)

\* characters of the model's names, in code-point order (str comparison)
AsciiOrder == "\n #-./0123456789:=?HPT_abcdefghijklmnopqrstuvwxyz~"

OrdTable ==
    [c \in {SubSeq(AsciiOrder, i, i) : i \in 1..Len(AsciiOrder)} |-> FindChar(AsciiOrder, c)]

Ord(c) == OrdTable[c]

\* a < b for str
StrLess(a, b) ==
    \E i \in 1..(Len(b)) :
        /\ i <= Len(a) + 1
        /\ SubSeq(a, 1, i - 1) = SubSeq(b, 1, i - 1)
        /\ \/ i = Len(a) + 1
           \/ i <= Len(a) /\ Ord(SubSeq(a, i, i)) < Ord(SubSeq(b, i, i))

\* p < q for Path: the segments are compared in turn
PathLess(p, q) ==
    \E i \in 1..Len(q) :
        /\ i <= Len(p) + 1
        /\ SubSeq(p, 1, i - 1) = SubSeq(q, 1, i - 1)
        /\ \/ i = Len(p) + 1
           \/ i <= Len(p) /\ StrLess(p[i], q[i])

\* sorted(S, reverse=True) for a set of Paths
RECURSIVE SortedPathsDescending(_)
SortedPathsDescending(S) ==
    IF S = {} THEN <<>>
    ELSE LET greatest == CHOOSE p \in S : \A q \in S \ {p} : PathLess(q, p)
         IN <<greatest>> \o SortedPathsDescending(S \ {greatest})

\* sorted(S) for a set of Paths
RECURSIVE SortedPaths(_)
SortedPaths(S) ==
    IF S = {} THEN <<>>
    ELSE LET least == CHOOSE p \in S : \A q \in S \ {p} : PathLess(p, q)
         IN <<least>> \o SortedPaths(S \ {least})

\* str(path) / Path.as_posix()
RECURSIVE JoinSegments(_)
JoinSegments(path) ==
    IF Len(path) = 0 THEN ""
    ELSE JoinSegments(SubSeq(path, 1, Len(path) - 1)) \o "/" \o path[Len(path)]

as_posix(path) == IF Len(path) = 0 THEN "/" ELSE JoinSegments(path)

\* Path(s).parts without the root: split at '/', dropping '' and '.'
RECURSIVE PathParts(_)
PathParts(s) ==
    IF Len(s) = 0 THEN <<>>
    ELSE LET slash == FindChar(s, "/")
             seg   == IF slash = 0 THEN s ELSE SubSeq(s, 1, slash - 1)
             rest  == IF slash = 0 THEN "" ELSE DropFirst(s, slash)
         IN (IF seg \in {"", "."} THEN <<>> ELSE <<seg>>)
            \o (CHOOSE parts \in {PathParts(r) : r \in {rest}} : TRUE)

IsPrefixPath(d, p) == Len(p) >= Len(d) /\ SubSeq(p, 1, Len(d)) = d

\* Path.stem of a file name: the name without its last suffix
Stem(name) ==
    LET dots == {i \in 2..Len(name) : SubSeq(name, i, i) = "."}
    IN IF dots = {} \/ EndsWith(name, ".") THEN name
       ELSE SubSeq(name, 1, (CHOOSE i \in dots : \A j \in dots : j <= i) - 1)

\* Path.with_name
with_name(path, name) == SubSeq(path, 1, Len(path) - 1) \o <<name>>

-----------------------------------------------------------------------------
(* The directory tree the service runs on                                   *)

Cwd == <<"w">>

Home == <<"home">>

DataDir == <<"w", "data">>

\* the directories that exist, and one symbolic link to DataDir
Directories == {<<>>, <<"w">>, <<"home">>, DataDir, DataDir \o <<"sub">>}

SymLink == <<"w", "link">>

\* a regular file that is not a request file
PlainFile == DataDir \o <<"readme.txt">>

\* the request files a directory tree may hold
RequestUniverse ==
    { DataDir \o <<"03_x_req.json">>,
      DataDir \o <<"03sample_req.json">>,
      DataDir \o <<"15_2_req.json">>,
      DataDir \o <<"a_req3.json">>,
      DataDir \o <<"sub", "a_req.json">> }

\* a file's bytes: UTF-8 text, or bytes that are not UTF-8
Text(t) == [utf8 |-> TRUE, text |-> t]

NotUtf8 == [utf8 |-> FALSE, text |-> ""]

Absent == [utf8 |-> FALSE, text |-> "absent"]

RequestContents == {Text("{\"foo\": \"bar\"}"), Text("{oops"), NotUtf8}

StaleResponse == Text("{\"old\": 1}\n")

\* candidate = Path(directory).expanduser().resolve()
RECURSIVE ResolveParts(_, _)
ResolveParts(acc, parts) ==
    IF Len(parts) = 0 THEN acc
    ELSE LET seg  == parts[1]
             next == IF seg = ".." THEN SubSeq(acc, 1, Len(acc) - 1)
                     ELSE IF acc \o <<seg>> = SymLink THEN DataDir
                     ELSE acc \o <<seg>>
         IN Only({ResolveParts(a, SubSeq(parts, 2, Len(parts))) : a \in {next}})

\* Path(dirname).expanduser(): '~' is the home directory, '~name' the home of
\* a user the system does not have, for which expanduser raises RuntimeError
expanduser(dirname) ==
    LET parts == PathParts(dirname)
    IN IF StartsWith(dirname, "/") \/ Len(parts) = 0 \/ ~StartsWith(parts[1], "~")
       THEN [ok |-> TRUE, abs |-> StartsWith(dirname, "/"), parts |-> parts]
       ELSE IF parts[1] = "~"
       THEN [ok |-> TRUE, abs |-> TRUE, parts |-> Home \o SubSeq(parts, 2, Len(parts))]
       ELSE [ok |-> FALSE, abs |-> FALSE, parts |-> parts]

\* Path(dirname).expanduser().resolve()
ResolvePath(dirname) ==
    Only({ ResolveParts(IF expanded.abs THEN <<>> ELSE Cwd, expanded.parts) :
           expanded \in {expanduser(dirname)} })

\* resolve_directory: the resolved path, or the exception raised
resolve_directory(dirname) ==
    LET candidate == ResolvePath(dirname)
    IN IF ~expanduser(dirname).ok
       THEN [ok |-> FALSE, type |-> "RuntimeError", path |-> <<>>,
             error |-> "Could not determine home directory."]
       ELSE IF candidate \notin Directories
       THEN [ok |-> FALSE, type |-> "ProcessingError", path |-> candidate,
             error |-> "Directory not found: " \o as_posix(candidate)]
       ELSE [ok |-> TRUE, type |-> "", path |-> candidate, error |-> ""]

\* fnmatch of '*' against a name
GlobStarAny(name, tail) == TRUE

\* fnmatch of '*<tail>' against a name
GlobStar(name, tail) == EndsWith(name, tail)

\* root.rglob(pattern) on the file system f
rglob(f, root, tail) ==
    {p \in DOMAIN f : /\ f[p] # Absent
                      /\ Len(p) > Len(root)
                      /\ IsPrefixPath(root, p)
                      /\ GlobStar(Name(p), tail)}

\* iter_request_files without the second glob
iter_request_files_first_glob(f, root) == SortedPaths(rglob(f, root, "_req.json"))

\* iter_request_files: the sorted union of the two globs
iter_request_files(f, root) ==
    SortedPaths(rglob(f, root, "_req.json") \cup rglob(f, root, "_req3.json"))

\* build_response_path returning the request path itself
build_response_path_in_place(request_path) ==
    LET stem == Stem(Name(request_path))
    IN IF EndsWith(stem, "_req") \/ EndsWith(stem, "_req3")
       THEN [ok |-> TRUE, error |-> "", path |-> request_path]
       ELSE [ok |-> FALSE, path |-> request_path,
             error |-> "File name does not end with '_req.json' or '_req3.json': "
                       \o as_posix(request_path)]

\* build_response_path giving '_res.json' to both kinds of request
build_response_path_one_suffix(request_path) ==
    LET stem == Stem(Name(request_path))
    IN IF EndsWith(stem, "_req")
       THEN [ok |-> TRUE, error |-> "",
             path |-> with_name(request_path, DropLast(stem, 4) \o "_res.json")]
       ELSE IF EndsWith(stem, "_req3")
       THEN [ok |-> TRUE, error |-> "",
             path |-> with_name(request_path, DropLast(stem, 5) \o "_res.json")]
       ELSE [ok |-> FALSE, path |-> request_path,
             error |-> "File name does not end with '_req.json' or '_req3.json': "
                       \o as_posix(request_path)]

\* build_response_path: the response path, or the ProcessingError raised
build_response_path(request_path) ==
    LET stem == Stem(Name(request_path))
    IN IF EndsWith(stem, "_req")
       THEN [ok |-> TRUE, error |-> "",
             path |-> with_name(request_path, DropLast(stem, 4) \o "_res.json")]
       ELSE IF EndsWith(stem, "_req3")
       THEN [ok |-> TRUE, error |-> "",
             path |-> with_name(request_path, DropLast(stem, 5) \o "_res3.json")]
       ELSE [ok |-> FALSE, path |-> request_path,
             error |-> "File name does not end with '_req.json' or '_req3.json': "
                       \o as_posix(request_path)]

-----------------------------------------------------------------------------
(* JSON: a parsed value is represented by its compact text                  *)

\* the JSON documents of the model, without insignificant whitespace
JsonDocs ==
    { "{\"foo\":\"bar\"}", "{\"result\":\"ok\"}", "{\"result\":\"ok\",\"n\":2}",
      "{\"a\":\"\\ud800\"}", "{\"old\":1}", "{}" }

\* the text without the whitespace between its tokens
RECURSIVE CompactFrom(_, _)
CompactFrom(t, i) ==
    IF i > Len(t) THEN ""
    ELSE (IF SubSeq(t, i, i) \in {" ", "\n"} THEN "" ELSE SubSeq(t, i, i))
         \o CompactFrom(t, i + 1)

Compact(t) == CompactFrom(t, 1)

\* json.loads / response.json(): the value, or a JSONDecodeError
json_loads(t) ==
    IF Compact(t) \in JsonDocs
    THEN [ok |-> TRUE, value |-> Compact(t)]
    ELSE [ok |-> FALSE, value |-> ""]

\* json.dumps(value, ensure_ascii=False, indent=4) of a flat object
RECURSIVE Pretty(_, _)
Pretty(v, i) ==
    IF i > Len(v) THEN ""
    ELSE LET c    == SubSeq(v, i, i)
             next == SubSeq(v, i + 1, i + 1)
             prev == SubSeq(v, i - 1, i - 1)
             out  == CASE c = "{" /\ next # "}" -> "{\n    "
                       [] c = "}" /\ prev # "{" -> "\n}"
                       [] c = ":" -> ": "
                       [] c = "," -> ",\n    "
                       [] OTHER -> c
         IN out \o Pretty(v, i + 1)

json_dumps(v) == Pretty(v, 1)

\* a str holding a lone surrogate cannot be encoded as UTF-8
Surrogate == "\"\\ud800"

\* the chunks json.dump wrote before the chunk that cannot be encoded
PartialDump(v) ==
    LET p == json_dumps(v)
        i == CHOOSE k \in 1..Len(p) : SubSeq(p, k, k + Len(Surrogate) - 1) = Surrogate
    IN SubSeq(p, 1, i - 1)

\* load_request_payload on a file's bytes
load_request_payload(f, path) ==
    IF ~f[path].utf8
    THEN [ok |-> FALSE, type |-> "UnicodeDecodeError", error |-> "invalid start byte", value |-> ""]
    ELSE IF ~json_loads(f[path].text).ok
    THEN [ok |-> FALSE, type |-> "ProcessingError",
          error |-> "Invalid JSON in " \o as_posix(path), value |-> ""]
    ELSE [ok |-> TRUE, type |-> "", error |-> "", value |-> json_loads(f[path].text).value]

\* the file save_response_payload leaves: the text and whether dump raised
save_response_payload(doc) ==
    IF Contains(json_dumps(doc), Surrogate)
    THEN [ok |-> FALSE, content |-> Text(PartialDump(doc))]
    ELSE [ok |-> TRUE, content |-> Text(json_dumps(doc) \o "\n")]

-----------------------------------------------------------------------------
(* relay_requests and the endpoint: inputs and values                       *)

\* the largest number of request files in the tree
MaxFiles == 2

Callers == {"endpoint", "direct_owned", "direct_supplied"}

InputFolders == {"data", "./link/", "absent", "data/readme.txt", "~nouser/data"}

TargetUrls ==
    { "http://example.com/idou/service/", "http://example.com/api", "HTTP://h/api?",
      "http://h/api?x=/idou/", "http://h/idou" }

\* what the downstream may answer
Statuses == {200, 404, 503}

ResponseBodies == {"{\"result\": \"ok\"}", "{\"a\":\"\\ud800\"}", "<html>"}

\* Response.raise_for_status raises unless the status is a success
\* every status below 500 taken for a success
is_success_below_500(status) == 200 <= status /\ status <= 499

is_success(status) == 200 <= status /\ status <= 299

AllPaths ==
    RequestUniverse \cup {build_response_path(p).path : p \in RequestUniverse}
                    \cup {PlainFile}

NoExc == [type |-> "none", msg |-> ""]

ProcessingError(msg) == [type |-> "ProcessingError", msg |-> msg]

OtherError(type, msg) == [type |-> type, msg |-> msg]

NoResponse == [status |-> 0, body |-> ""]

NoSummary == [returned |-> FALSE, target_url |-> "", base_directory |-> <<>>,
              processed_files |-> <<>>]

NoHttp == [status |-> 0, detail |-> "", processed |-> 0, responses |-> <<>>]

\* the file systems a run may start on: at most MaxFiles request files, each
\* with some content, and possibly the response files of an earlier run
InitialFileSystems ==
    { [p \in AllPaths |->
          IF p = PlainFile THEN Text("notes")
          ELSE IF p \in DOMAIN c THEN c[p]
          ELSE IF stale /\ \E q \in DOMAIN c : build_response_path(q).path = p
               THEN StaleResponse
          ELSE Absent]
      : c \in UNION {[R -> RequestContents] :
                       R \in {S \in SUBSET RequestUniverse : Cardinality(S) <= MaxFiles}},
        stale \in BOOLEAN }

-----------------------------------------------------------------------------
(* Inputs of the route-resolution specification                             *)

RouteBases ==
    { "http://example.com/idou/service",
      "http://example.com/idou/service/",
      "http://example.com/idou/service//?q=1#f",
      "http://h/idou/",
      "http://h/idou/x?a=/b/",
      "HTTP://h/idou/x?",
      "http://example.com/api",
      "http://h/api?x=/idou/",
      "http://h/idou",
      "HTTP://h/api/?" }

RoutePrefixes == {"03", "05", "06", "08", "09", "11", "15_1", "15_2", "13", "15", ""}

RouteMiddles == {"", "_x", "_", "_a_b", "sample", "alpha", "omega", "_\n"}

RouteEndings == {"_req.json", "_req3.json", "_req.json\n", "_res.json"}

RouteFileNames == {p \o m \o e : p \in RoutePrefixes, m \in RouteMiddles, e \in RouteEndings}

RouteDir == <<"tmp">>

-----------------------------------------------------------------------------
(* Specification of one call of resolve_post_url                            *)

NoResolved == [ok |-> FALSE, type |-> "", path |-> <<>>, error |-> ""]

DirIdle == d_dir = "" /\ d_pc = "idle" /\ d_first = NoResolved /\ d_second = NoResolved

RouteIdle == r_base = "" /\ r_path = <<>> /\ r_pc = "idle" /\ r_result = ""

RunIdleOn(f) ==
    /\ caller = "none" /\ inputfolder = "" /\ target_url = ""
    /\ directory = <<>>
    /\ fs = f
    /\ pc = "idle"
    /\ files = <<>> /\ idx = 0
    /\ payload = "" /\ post_url = "" /\ response = NoResponse
    /\ response_payload = "" /\ response_path = <<>>
    /\ processed = <<>> /\ owns_client = FALSE /\ closes = 0
    /\ posts = <<>> /\ writes = <<>>
    /\ exc = NoExc /\ summary = NoSummary /\ http = NoHttp

RunIdle == RunIdleOn([p \in AllPaths |-> Absent])

RouteInit ==
    /\ r_base \in RouteBases
    /\ r_path \in {RouteDir \o <<n>> : n \in RouteFileNames}
    /\ r_pc = "call"
    /\ r_result = ""
    /\ DirIdle
    /\ RunIdle

ResolveCall ==
    /\ r_pc = "call"
    /\ r_result' = resolve_post_url(r_base, r_path)
    /\ r_pc' = "returned"
    /\ UNCHANGED <<r_base, r_path>>
    /\ UNCHANGED <<dirVars, runVars>>

RouteNext == ResolveCall

SpecRoute == RouteInit /\ [][RouteNext]_vars

-----------------------------------------------------------------------------
(* Specification of resolve_directory called on a directory string and then *)
(* on the path it returned                                                  *)

DirPrefixes == {"", "./", "/", "//", "~/", "/w/", "../", "/w/data/../", "~nouser/"}

DirBodies ==
    { "", "data", "link", "absent", "data/readme.txt", "data/sub", "link/sub",
      "data/sub/..", "link/..", "w", "w/data", "home", "..", "data/absent/..",
      "data/readme.txt/..", "~" }

DirSuffixes == {"", "/"}

DirectoryInputs == {p \o b \o e : p \in DirPrefixes, b \in DirBodies, e \in DirSuffixes}

\* the tree holds readme.txt and no request file
PlainTree == [p \in AllPaths |-> IF p = PlainFile THEN Text("notes") ELSE Absent]

DirInit ==
    /\ d_dir \in DirectoryInputs
    /\ d_pc = "call"
    /\ d_first = NoResolved /\ d_second = NoResolved
    /\ RouteIdle
    /\ RunIdleOn(PlainTree)

\* resolved = resolve_directory(d)
ResolveOnce ==
    /\ d_pc = "call"
    /\ d_first' = resolve_directory(d_dir)
    /\ d_pc' = (IF d_first'.ok THEN "once" ELSE "raised")
    /\ UNCHANGED <<d_dir, d_second, routeVars, runVars>>

\* resolve_directory(resolved): Path(resolved) is built from str(resolved)
ResolveAgain ==
    /\ d_pc = "once"
    /\ d_second' = resolve_directory(as_posix(d_first.path))
    /\ d_pc' = "twice"
    /\ UNCHANGED <<d_dir, d_first, routeVars, runVars>>

DirNext == ResolveOnce \/ ResolveAgain

SpecResolve == DirInit /\ [][DirNext]_vars

-----------------------------------------------------------------------------
(* Specification of one request to the endpoint, or one direct call of      *)
(* relay_requests with or without a client                                  *)

Init ==
    /\ RouteIdle
    /\ DirIdle
    /\ caller \in Callers
    /\ inputfolder \in (IF caller = "endpoint" THEN InputFolders ELSE {""})
    /\ target_url \in TargetUrls
    /\ directory = (IF caller = "endpoint" THEN <<>> ELSE DataDir)
    /\ fs \in InitialFileSystems
    /\ pc = (IF caller = "endpoint" THEN "request" ELSE "relay")
    /\ files = <<>> /\ idx = 0
    /\ payload = "" /\ post_url = "" /\ response = NoResponse
    /\ response_payload = "" /\ response_path = <<>>
    /\ processed = <<>> /\ owns_client = FALSE /\ closes = 0
    /\ posts = <<>> /\ writes = <<>>
    /\ exc = NoExc /\ summary = NoSummary /\ http = NoHttp

\* one call of client.post: the URL, the JSON sent, the request file it was
\* sent for, and the status and body received (status 0: no answer)
PostCall(url, json, file, status, body) ==
    [url |-> url, json |-> json, file |-> file, status |-> status, body |-> body]

\* the exception is dropped and the loop left
RaiseSwallowed(e) == exc' = NoExc /\ pc' = "finally"

\* an exception leaves the loop for the finally clause
Raise(e) == exc' = e /\ pc' = "finally"

\* server.py: directory = resolve_directory(inputfolder), HTTP 400 on error
ResolveDirectory ==
    /\ pc = "request"
    /\ LET r == resolve_directory(inputfolder)
       IN IF r.ok
          THEN /\ directory' = r.path
               /\ pc' = "relay"
               /\ http' = http
          ELSE /\ http' = (IF r.type = "ProcessingError"
                            THEN [NoHttp EXCEPT !.status = 400, !.detail = r.error]
                            ELSE [NoHttp EXCEPT !.status = 500,
                                                !.detail = "Internal Server Error"])
               /\ pc' = "responded"
               /\ directory' = directory
    /\ UNCHANGED <<routeVars, dirVars, inputVars, fs, files, idx, localVars, processed, owns_client,
                   closes, posts, writes, exc, summary>>

\* relay_requests: processed = [], owns_client, client creation
RelayStart ==
    /\ pc = "relay"
    /\ processed' = <<>>
    /\ owns_client' = (caller # "direct_supplied")
    /\ pc' = "discover"
    /\ UNCHANGED <<routeVars, dirVars, inputVars, directory, fs, files, idx, localVars, closes, posts,
                   writes, exc, summary, http>>

\* the first step of the for loop runs iter_request_files to its sorted(),
\* unless walking the tree raises
Discover ==
    /\ pc = "discover"
    /\ \/ /\ files' = iter_request_files(fs, directory)
          /\ idx' = 1
          /\ pc' = (IF Len(files') = 0 THEN "finally" ELSE "load")
          /\ exc' = exc
       \/ /\ Raise(OtherError("OSError", "Input/output error"))
          /\ UNCHANGED <<files, idx>>
    /\ UNCHANGED <<routeVars, dirVars, inputVars, directory, fs, localVars, processed, owns_client,
                   closes, posts, writes, summary, http>>

\* payload = load_request_payload(request_path)
Load ==
    /\ pc = "load"
    /\ LET r == load_request_payload(fs, files[idx])
       IN IF r.ok
          THEN payload' = r.value /\ pc' = "route" /\ exc' = exc
          ELSE /\ payload' = payload
               /\ Raise(IF r.type = "ProcessingError" THEN ProcessingError(r.error)
                        ELSE OtherError(r.type, r.error))
    /\ UNCHANGED <<routeVars, dirVars, inputVars, directory, fs, files, idx, post_url, response,
                   response_payload, response_path, processed, owns_client, closes,
                   posts, writes, summary, http>>

\* post_url = resolve_post_url(target_url, request_path)
Route ==
    /\ pc = "route"
    /\ post_url' = resolve_post_url(target_url, files[idx])
    /\ pc' = "post"
    /\ UNCHANGED <<routeVars, dirVars, inputVars, directory, fs, files, idx, payload, response,
                   response_payload, response_path, processed, owns_client, closes,
                   posts, writes, exc, summary, http>>

\* client.post called a second time for the file when the first exchange did
\* not complete
PostRetrying ==
    /\ pc = "post"
    /\ \/ /\ \E st \in Statuses, body \in ResponseBodies :
                /\ response' = [status |-> st, body |-> body]
                /\ posts' = Append(posts, PostCall(post_url, payload, files[idx], st, body))
          /\ pc' = "status"
          /\ exc' = exc
       \/ /\ response' = response
          /\ posts' = Append(posts, PostCall(post_url, payload, files[idx], 0, ""))
          /\ IF Len(posts) < idx
             THEN pc' = "post" /\ exc' = exc
             ELSE Raise(OtherError("ConnectError", "All connection attempts failed"))
    /\ UNCHANGED <<routeVars, dirVars, inputVars, directory, fs, files, idx, payload, post_url,
                   response_payload, response_path, processed, owns_client, closes,
                   writes, summary, http>>

\* response = client.post(post_url, json=payload): an answer, or the
\* exchange does not complete and client.post raises
Post ==
    /\ pc = "post"
    /\ \/ /\ \E st \in Statuses, body \in ResponseBodies :
                /\ response' = [status |-> st, body |-> body]
                /\ posts' = Append(posts, PostCall(post_url, payload, files[idx], st, body))
          /\ pc' = "status"
          /\ exc' = exc
       \/ /\ response' = response
          /\ posts' = Append(posts, PostCall(post_url, payload, files[idx], 0, ""))
          /\ Raise(OtherError("ConnectError", "All connection attempts failed"))
    /\ UNCHANGED <<routeVars, dirVars, inputVars, directory, fs, files, idx, payload, post_url,
                   response_payload, response_path, processed, owns_client, closes,
                   writes, summary, http>>

\* response.raise_for_status(), HTTPStatusError turned into ProcessingError
CheckStatus ==
    /\ pc = "status"
    /\ IF is_success(response.status)
       THEN pc' = "parse" /\ exc' = exc
       ELSE Raise(ProcessingError("Downstream server responded with status "
                                  \o ToString(response.status)))
    /\ UNCHANGED <<routeVars, dirVars, inputVars, directory, fs, files, idx, localVars, processed,
                   owns_client, closes, posts, writes, summary, http>>

\* response_payload = response.json(), ValueError turned into ProcessingError
ParseResponse ==
    /\ pc = "parse"
    /\ LET r == json_loads(response.body)
       IN IF r.ok
          THEN response_payload' = r.value /\ pc' = "derive" /\ exc' = exc
          ELSE /\ response_payload' = response_payload
               /\ Raise(ProcessingError("Downstream response is not valid JSON"))
    /\ UNCHANGED <<routeVars, dirVars, inputVars, directory, fs, files, idx, payload, post_url, response,
                   response_path, processed, owns_client, closes, posts, writes,
                   summary, http>>

\* response_path = build_response_path(request_path)
DeriveResponsePath ==
    /\ pc = "derive"
    /\ LET r == build_response_path(files[idx])
       IN IF r.ok
          THEN response_path' = r.path /\ pc' = "save" /\ exc' = exc
          ELSE response_path' = response_path /\ Raise(ProcessingError(r.error))
    /\ UNCHANGED <<routeVars, dirVars, inputVars, directory, fs, files, idx, payload, post_url, response,
                   response_payload, processed, owns_client, closes, posts, writes,
                   summary, http>>

\* save_response_payload(response_path, response_payload): the file cannot
\* be opened, or it is opened for writing (created or truncated) and the
\* dump is written or raises part-way
Persist ==
    /\ pc = "save"
    /\ \/ /\ Raise(OtherError("PermissionError", "Permission denied"))
          /\ UNCHANGED <<fs, writes>>
       \/ LET r == save_response_payload(response_payload)
          IN /\ fs' = [fs EXCEPT ![response_path] = r.content]
             /\ writes' = Append(writes, response_path)
             /\ IF r.ok
                THEN pc' = "append" /\ exc' = exc
                ELSE Raise(OtherError("UnicodeEncodeError", "surrogates not allowed"))
    /\ UNCHANGED <<routeVars, dirVars, inputVars, directory, files, idx, localVars, processed,
                   owns_client, closes, posts, summary, http>>

\* processed.append(ProcessedFile(...)) and the next iteration
AppendProcessed ==
    /\ pc = "append"
    /\ processed' = Append(processed, [request_path |-> files[idx],
                                       response_path |-> response_path])
    /\ idx' = idx + 1
    /\ pc' = (IF idx < Len(files) THEN "load" ELSE "finally")
    /\ UNCHANGED <<routeVars, dirVars, inputVars, directory, fs, files, localVars, owns_client, closes,
                   posts, writes, exc, summary, http>>

\* the response files of the run removed again when it fails
FinallyRollingBack ==
    /\ pc = "finally"
    /\ closes' = (IF owns_client THEN closes + 1 ELSE closes)
    /\ IF exc = NoExc
       THEN /\ summary' = [returned |-> TRUE, target_url |-> target_url,
                           base_directory |-> directory, processed_files |-> processed]
            /\ pc' = "returned"
            /\ fs' = fs
       ELSE /\ summary' = summary
            /\ pc' = "raised"
            /\ fs' = [p \in DOMAIN fs |->
                         IF \E k \in 1..Len(writes) : writes[k] = p THEN Absent ELSE fs[p]]
    /\ UNCHANGED <<routeVars, dirVars, inputVars, directory, files, idx, localVars, processed,
                   owns_client, posts, writes, exc, http>>

\* the client closed after the loop instead of in a finally clause
FinallyCloseOnSuccessOnly ==
    /\ pc = "finally"
    /\ closes' = (IF owns_client /\ exc = NoExc THEN closes + 1 ELSE closes)
    /\ IF exc = NoExc
       THEN /\ summary' = [returned |-> TRUE, target_url |-> target_url,
                           base_directory |-> directory, processed_files |-> processed]
            /\ pc' = "returned"
       ELSE /\ summary' = summary
            /\ pc' = "raised"
    /\ UNCHANGED <<routeVars, dirVars, inputVars, directory, fs, files, idx, localVars, processed,
                   owns_client, posts, writes, exc, http>>

\* finally: close an owned client; then return the summary or raise on
Finally ==
    /\ pc = "finally"
    /\ closes' = (IF owns_client THEN closes + 1 ELSE closes)
    /\ IF exc = NoExc
       THEN /\ summary' = [returned |-> TRUE, target_url |-> target_url,
                           base_directory |-> directory, processed_files |-> processed]
            /\ pc' = "returned"
       ELSE /\ summary' = summary
            /\ pc' = "raised"
    /\ UNCHANGED <<routeVars, dirVars, inputVars, directory, fs, files, idx, localVars, processed,
                   owns_client, posts, writes, exc, http>>

\* server.py: HTTP 502 for a ProcessingError, the framework's 500 for any
\* other exception, else the ProcessResponse
Respond ==
    /\ caller = "endpoint"
    /\ pc \in {"returned", "raised"}
    /\ http' = IF pc = "returned"
               THEN [status |-> 200, detail |-> "ok",
                     processed |-> Len(summary.processed_files),
                     responses |-> [i \in 1..Len(summary.processed_files) |->
                                      as_posix(summary.processed_files[i].response_path)]]
               ELSE IF exc.type = "ProcessingError"
               THEN [NoHttp EXCEPT !.status = 502, !.detail = exc.msg]
               ELSE [NoHttp EXCEPT !.status = 500, !.detail = "Internal Server Error"]
    /\ pc' = "responded"
    /\ UNCHANGED <<routeVars, dirVars, inputVars, directory, fs, files, idx, localVars, processed,
                   owns_client, closes, posts, writes, exc, summary>>

Next ==
    \/ ResolveDirectory
    \/ RelayStart
    \/ Discover
    \/ Load
    \/ Route
    \/ Post
    \/ CheckStatus
    \/ ParseResponse
    \/ DeriveResponsePath
    \/ Persist
    \/ AppendProcessed
    \/ Finally
    \/ Respond

Spec == Init /\ [][Next]_vars

\* relay_requests runs in one thread, statement after statement, and
\* client.post returns or raises: an enabled step of the run is taken
RelayStep ==
    \/ RelayStart
    \/ Discover
    \/ Load
    \/ Route
    \/ Post
    \/ CheckStatus
    \/ ParseResponse
    \/ DeriveResponsePath
    \/ Persist
    \/ AppendProcessed
    \/ Finally

\* the runs of Init over the folder 'data' towards one target, on a tree
\* without earlier responses and with at most one request file that cannot be
\* loaded
FairInit ==
    /\ Init
    /\ inputfolder \in {"", "data"}
    /\ target_url = "http://example.com/idou/service/"
    /\ \A p \in AllPaths : fs[p] # StaleResponse
    /\ \A p, q \in RequestUniverse :
          (/\ fs[p] \notin {Absent, Text("{\"foo\": \"bar\"}")}
           /\ fs[q] \notin {Absent, Text("{\"foo\": \"bar\"}")}) => p = q

FairSpec == FairInit /\ [][Next]_vars /\ WF_vars(RelayStep)

-----------------------------------------------------------------------------
(* Properties                                                               *)

\* the path of the URL contains '/idou/'
InIdouScope(base) == Contains(urlsplit(base).path, "/idou/")

\* the path without its trailing slashes, found by search
TrimmedPath(path) ==
    LET k == CHOOSE n \in 0..Len(path) :
                /\ ~EndsWith(SubSeq(path, 1, n), "/")
                /\ \A j \in (n + 1)..Len(path) : SubSeq(path, j, j) = "/"
    IN SubSeq(path, 1, k)

\* the base URL with '/' + suffix appended to its path
RoutedUrl(base, suffix) ==
    LET b == urlsplit(base)
    IN urlunsplit(b.scheme, b.netloc, TrimmedPath(b.path) \o "/" \o suffix,
                  b.query, b.fragment)

IsLetters(w) ==
    \A i \in 1..Len(w) : Contains("abcdefghijklmnopqrstuvwxyz", SubSeq(w, i, i))

\* the name is prefix + middle + '_req.json'
Middle(name, prefix) == SubSeq(name, Len(prefix) + 1, Len(name) - Len("_req.json"))

HasForm(name, prefix) ==
    /\ StartsWith(name, prefix)
    /\ EndsWith(name, "_req.json")
    /\ Len(name) >= Len(prefix) + Len("_req.json")

\* '15_2_req.json' or '15_2_<anything>_req.json', <anything> free of newlines
Is15_2Name(name) ==
    \/ name = "15_2_req.json"
    \/ HasForm(name, "15_2_") /\ NoNewline(name)

\* C1: for a base URL whose path contains '/idou/', a request file named
\* '15_2_req.json' or '15_2_<anything>_req.json' is routed to the base path
\* followed by '/meisairep'.
C1_Routes15_2ToMeisairep ==
    (r_pc = "returned" /\ InIdouScope(r_base) /\ Is15_2Name(Name(r_path)))
        => r_result = RoutedUrl(r_base, "meisairep")

\* the first six rules: prefixes 03, 05, 06, 08, 09, 11
TwoDigitRules == 1..6

\* C2: for a base URL whose path contains '/idou/', a file named
\* prefix + w + '_req.json', w a string of letters, prefix one of 03, 05, 06,
\* 08, 09, 11, resolves to the base path followed by '/' + the rule's suffix,
\* and relay_requests POSTs the file to that URL.
C2_LetterNamesAreRouted ==
    \A k \in 1..Len(posts) : \A i \in TwoDigitRules :
        LET name == Name(posts[k].file)
            rule == IDOU_ROUTE_RULES[i]
        IN (/\ InIdouScope(target_url)
            /\ HasForm(name, rule.prefix)
            /\ IsLetters(Middle(name, rule.prefix)))
           => /\ resolve_post_url(target_url, posts[k].file)
                    = RoutedUrl(target_url, rule.suffix)
              /\ posts[k].url = RoutedUrl(target_url, rule.suffix)

\* the target URLs whose path contains '/idou/'
IdouTargets == {u \in TargetUrls : InIdouScope(u)}

\* the response bodies that parse as JSON
JsonResponseBodies == {b \in ResponseBodies : json_loads(b).ok}

\* the request contents that parse as JSON
ValidContents == {c \in RequestContents : c.utf8 /\ json_loads(c.text).ok}

\* C3: for a base URL whose path does not contain '/idou/', resolve_post_url
\* returns the base URL exactly as given for every file name, and every POST
\* of the run goes to the unmodified target URL.  (The function is applied
\* to all of RouteFileNames once per target URL, at the entry of a direct
\* call on a tree without request files.)
C3_OutOfScopeUnchanged ==
    target_url \notin IdouTargets =>
        /\ \A k \in 1..Len(posts) : posts[k].url = target_url
        /\ pc = "post" => post_url = target_url
        /\ (pc = "relay" /\ \A p \in RequestUniverse : fs[p] = Absent) =>
              \A n \in RouteFileNames :
                  resolve_post_url(target_url, RouteDir \o <<n>>) = target_url

\* a file matching rule 03 was POSTed to an out-of-scope target, unmodified
C3_Witness ==
    /\ ~InIdouScope(target_url)
    /\ \E k \in 1..Len(posts) :
          /\ Name(posts[k].file) = "03_x_req.json"
          /\ PatternMatch("03", Name(posts[k].file))
          /\ posts[k].url = target_url
          /\ posts[k].url = "http://h/api?x=/idou/"

\* the request files under the scanned directory
Discovered == {p \in RequestUniverse : fs[p] # Absent /\ IsPrefixPath(directory, p)}

ValidRequest(p) == fs[p] \in ValidContents

AllRequestsValid == \A p \in Discovered : ValidRequest(p)

AllPostsSucceed ==
    \A k \in 1..Len(posts) : is_success(posts[k].status) /\ posts[k].body \in JsonResponseBodies

\* relay_requests has returned or raised
RunEnded == pc \in {"returned", "raised"}

\* the derived response path of a request file
ResponseOf(p) == build_response_path(p).path

\* a summary was returned that lists every discovered file once, in path
\* order, with its derived response path, and each response file holds the
\* body received for that request
SummaryComplete ==
    LET pf == summary.processed_files
    IN /\ summary.returned
       /\ Len(pf) = Cardinality(Discovered)
       /\ {pf[i].request_path : i \in 1..Len(pf)} = Discovered
       /\ \A i, j \in 1..Len(pf) : i < j => PathLess(pf[i].request_path, pf[j].request_path)
       /\ \A i \in 1..Len(pf) :
             /\ pf[i].response_path = ResponseOf(pf[i].request_path)
             /\ fs[pf[i].response_path] # Absent
             /\ fs[pf[i].response_path].utf8
             /\ \E k \in 1..Len(posts) :
                   /\ posts[k].file = pf[i].request_path
                   /\ json_loads(fs[pf[i].response_path].text) = json_loads(posts[k].body)

\* walking the tree did not raise
DiscoveryCompleted == exc.type # "OSError"

PersistFailure == exc.type \in {"PermissionError", "UnicodeEncodeError"}

C5_ClientClosedIffOwned ==
    /\ closes <= 1
    /\ caller = "direct_supplied" => closes = 0
    /\ (caller \in {"endpoint", "direct_owned"} /\ RunEnded) => closes = 1
    /\ (pc = "responded" /\ (summary.returned \/ exc # NoExc)) => closes = 1
    /\ (pc = "responded" /\ ~summary.returned /\ exc = NoExc) => closes = 0
    /\ pc \notin {"finally", "returned", "raised", "responded"} => closes = 0

\* an exception other than ProcessingError, raised while persisting, left a
\* run that owns its client
C5_Witness ==
    /\ pc = "raised"
    /\ caller = "direct_owned"
    /\ exc.type = "PermissionError"
    /\ Len(posts) = 2
    /\ closes = 1

\* the run failed at the file files[idx]
FailedInLoop == pc = "raised" /\ idx \in 1..Len(files)

\* a returned summary means every discovered file was POSTed and written
SummaryOnlyOnFullSuccess ==
    summary.returned =>
        /\ exc = NoExc
        /\ Len(processed) = Len(files)
        /\ \A i \in 1..Len(files) :
              /\ \E k \in 1..Len(posts) : posts[k].file = files[i]
              /\ \E k \in 1..Len(writes) : writes[k] = ResponseOf(files[i])

NoLaterPost ==
    \A k \in 1..Len(posts) : \E j \in 1..idx : posts[k].file = files[j]

Written(p) == \E k \in 1..Len(writes) : writes[k] = p

\* C6 as stated: a failure at the i-th file raises, returns no summary,
\* issues no POST after the i-th file and writes no response file for the
\* i-th or any later file.
C6_Original ==
    /\ FailedInLoop =>
          /\ ~summary.returned
          /\ NoLaterPost
          /\ \A j \in idx..Len(files) : ~Written(ResponseOf(files[j]))
    /\ SummaryOnlyOnFullSuccess

\* C6 amended: a failure at the i-th file raises, returns no summary, issues
\* no POST after the i-th file and writes no response file for any later
\* file; the i-th response file is written only when the failing step is
\* persist and the dump raised after the file was opened; a summary is
\* returned only when every discovered file completed all steps.
C6_StopsAtFirstFailure ==
    /\ FailedInLoop =>
          /\ exc # NoExc
          /\ ~summary.returned
          /\ NoLaterPost
          /\ \A j \in (idx + 1)..Len(files) : ~Written(ResponseOf(files[j]))
          /\ Written(ResponseOf(files[idx])) => exc.type = "UnicodeEncodeError"
    /\ SummaryOnlyOnFullSuccess

\* the second of two files failed on the downstream status after the first
\* was POSTed and written
C6_Witness ==
    /\ FailedInLoop
    /\ idx = 2 /\ Len(files) = 2
    /\ exc.type = "ProcessingError"
    /\ Len(posts) = 2 /\ ~is_success(posts[2].status)
    /\ Len(writes) = 1

\* C7: when the content of the request file files[idx] cannot be parsed as
\* JSON, the run fails with ProcessingError 'Invalid JSON in <path>', no POST
\* is issued for that file and no summary is returned.
C7_InvalidRequestJson ==
    (idx \in 1..Len(files) /\ ~ValidRequest(files[idx])) =>
        /\ \A k \in 1..Len(posts) : posts[k].file # files[idx]
        /\ pc \in {"load", "finally", "raised", "responded"}
        /\ pc # "load" =>
              /\ exc = ProcessingError("Invalid JSON in " \o as_posix(files[idx]))
              /\ ~summary.returned

\* the last exchange with the downstream failed: no answer, a status that is
\* not a success, or a body that is not JSON
DownstreamFailed ==
    /\ Len(posts) > 0
    /\ LET last == posts[Len(posts)]
       IN \/ last.status = 0
          \/ ~is_success(last.status)
          \/ last.body \notin JsonResponseBodies

\* C8: at the endpoint a directory-resolution failure yields HTTP 400 without
\* a relay run, and every failure of the downstream exchange yields HTTP 502,
\* the detail being the core error's message.
C8_EndpointErrorMapping ==
    (caller = "endpoint" /\ pc = "responded") =>
        /\ ResolvePath(inputfolder) \notin Directories =>
              /\ http.status = 400
              /\ http.detail = "Directory not found: " \o as_posix(ResolvePath(inputfolder))
              /\ posts = <<>> /\ writes = <<>> /\ closes = 0
        /\ DownstreamFailed =>
              /\ http.status = 502
              /\ exc.type = "ProcessingError"
              /\ http.detail = exc.msg

\* C9: when a rule matches, the result has the scheme, authority, query and
\* fragment of the base URL, and its path is the base path without trailing
\* slashes followed by '/' and the rule's suffix; '/idou/service/' and
\* '/idou/service' give the same result.
C9_RoutedUrlShape ==
    (r_pc = "returned" /\ InIdouScope(r_base) /\ MatchingRules(Name(r_path)) # {}) =>
        LET b == urlsplit(r_base)
            r == urlsplit(r_result)
        IN /\ r.scheme = b.scheme
           /\ r.netloc = b.netloc
           /\ r.query = b.query
           /\ r.fragment = b.fragment
           /\ \E i \in MatchingRules(Name(r_path)) :
                 r.path = TrimmedPath(b.path) \o "/" \o IDOU_ROUTE_RULES[i].suffix
           /\ r_base = "http://example.com/idou/service/" =>
                 r_result = resolve_post_url("http://example.com/idou/service", r_path)

\* a base with trailing slashes, a query and a fragment was routed
C9_Witness ==
    /\ r_pc = "returned"
    /\ r_base = "http://example.com/idou/service//?q=1#f"
    /\ Name(r_path) = "03_x_req.json"
    /\ r_result = "http://example.com/idou/service/chkkeiyakuOver?q=1#f"

\* C10: a file name ending in '_req3.json' matches no rule, and
\* resolve_post_url returns the base URL unchanged for it, for every base.
C10_Req3NeverRouted ==
    (r_pc = "returned" /\ EndsWith(Name(r_path), "_req3.json")) =>
        /\ MatchingRules(Name(r_path)) = {}
        /\ r_result = r_base

\* a '_req3.json' name that begins with a rule prefix, under an /idou/ base
C10_Witness ==
    /\ r_pc = "returned"
    /\ InIdouScope(r_base)
    /\ Name(r_path) = "03_x_req3.json"
    /\ r_result = r_base

\* the name begins with the prefix of some rule of the table
HasTablePrefix(name) ==
    \E i \in 1..Len(IDOU_ROUTE_RULES) : StartsWith(name, IDOU_ROUTE_RULES[i].prefix)

\* C11: for a base URL whose path contains '/idou/', a '_req.json' name that
\* does not begin with a prefix of the table matches no rule, and
\* resolve_post_url returns the base URL unchanged.
C11_UnknownPrefixUnchanged ==
    (/\ r_pc = "returned"
     /\ InIdouScope(r_base)
     /\ EndsWith(Name(r_path), "_req.json")
     /\ ~HasTablePrefix(Name(r_path)))
        => /\ MatchingRules(Name(r_path)) = {}
           /\ r_result = r_base

\* '13omega_req.json' under the base of the test was resolved
C11_Witness ==
    /\ r_pc = "returned"
    /\ r_base = "http://example.com/idou/service"
    /\ Name(r_path) = "13omega_req.json"
    /\ r_result = "http://example.com/idou/service"

\* C12: when the directory holds no file matching '*_req.json' or
\* '*_req3.json', relay_requests issues no POST, writes no file and returns a
\* summary with empty processed_files (processed_count 0) instead of raising.
C12_EmptyDirectoryRun ==
    (Discovered = {} /\ DiscoveryCompleted)
        => /\ posts = <<>>
           /\ writes = <<>>
           /\ RunEnded
                => /\ pc = "returned"
                   /\ exc = NoExc
                   /\ summary.returned
                   /\ summary.processed_files = <<>>
                   /\ Len(summary.processed_files) = 0

\* a run over a directory holding only a file that is not a request returned
C12_Witness ==
    /\ pc = "returned"
    /\ directory = DataDir
    /\ fs[PlainFile] # Absent
    /\ Discovered = {}
    /\ summary.returned
    /\ posts = <<>>

\* the string names an existing directory of the tree
NamesDirectory(d) == expanduser(d).ok /\ ResolvePath(d) \in Directories

\* no '.', '..' or '~' segment, and no symbolic link on the way
IsCanonical(path) ==
    \A i \in 1..Len(path) :
        /\ path[i] \notin {"", ".", "..", "~"}
        /\ SubSeq(path, 1, i) # SymLink

\* C13: resolve_directory fails with ProcessingError 'Directory not found'
\* whenever the path does not exist or is not a directory; for an existing
\* directory it returns the canonical absolute path, and calling it on its own
\* result returns that result again; the file system is left as it was.
C13_ResolveDirectory ==
    /\ fs = PlainTree
    /\ d_pc \in {"once", "twice", "raised"}
          => IF NamesDirectory(d_dir)
             THEN /\ d_first.ok
                  /\ d_first.path \in Directories
                  /\ IsCanonical(d_first.path)
                  /\ StartsWith(as_posix(d_first.path), "/")
             ELSE /\ ~d_first.ok
                  /\ d_first.type = "ProcessingError"
                  /\ StartsWith(d_first.error, "Directory not found")
    /\ d_pc = "twice" => d_second = d_first

\* the response file of files[k] holds the body its POST returned
Persisted(k) ==
    /\ k <= Len(writes)
    /\ writes[k] = ResponseOf(files[k])
    /\ fs[writes[k]] # Absent
    /\ fs[writes[k]].utf8
    /\ json_loads(fs[writes[k]].text) = json_loads(posts[k].body)

\* C14: within one run the request files are fixed, sorted by path and free of
\* duplicates, before the first POST; the POSTs are issued in exactly that
\* order; the response file of the k-th request is persisted before the POST
\* for the (k+1)-th; the steps of different files never overlap.  (pc =
\* "status" is the state a POST has just returned in.)
C14_SequentialInOrder ==
    /\ (pc = "status" /\ Len(posts) = 1) =>
          /\ {files[i] : i \in 1..Len(files)} = Discovered
          /\ \A i, j \in 1..Len(files) : i < j => PathLess(files[i], files[j])
    /\ pc = "status" => \A k \in 1..(Len(posts) - 1) : Persisted(k)
    /\ Len(posts) <= Len(files)
    /\ \A k \in 1..Len(posts) : posts[k].file = files[k]
    /\ Len(writes) <= Len(posts) /\ Len(posts) <= Len(writes) + 1
    /\ Len(processed) <= Len(writes) /\ Len(writes) <= Len(processed) + 1
    /\ \A k \in 1..Len(processed) : processed[k].request_path = files[k]

\* the second of two files was POSTed after the response of the first was
\* written and before its own
C14_Witness ==
    /\ pc = "status"
    /\ Len(files) = 2
    /\ Len(posts) = 2
    /\ posts[2].file = files[2]
    /\ writes = <<ResponseOf(files[1])>>
    /\ Persisted(1)

\* a 2xx status
Succeeded(status) == status \in 200..299

\* the response paths of all request files the tree can hold
ResponsePaths == {ResponseOf(p) : p \in RequestUniverse}

\* nothing of the request the last POST was sent for has been recorded
LastNotRecorded ==
    LET last == posts[Len(posts)]
    IN /\ Len(writes) = Len(posts) - 1
       /\ ~Written(ResponseOf(last.file))
       /\ fs[ResponseOf(last.file)] \in {Absent, StaleResponse}
       /\ \A k \in 1..Len(processed) : processed[k].request_path # last.file

\* C15: a response file has been created or overwritten by the run only if the
\* POST for its request returned a successful status and a body that parses as
\* JSON; a non-successful status fails the run with an error carrying the
\* status code, a non-JSON body fails the run, both without writing the
\* response file and without adding a ProcessedFile record.
C15_WriteOnlyAfterSuccess ==
    /\ \A k \in 1..Len(writes) :
          /\ k <= Len(posts)
          /\ writes[k] = ResponseOf(posts[k].file)
          /\ Succeeded(posts[k].status)
          /\ posts[k].body \in JsonResponseBodies
    /\ \A p \in ResponsePaths : fs[p] \notin {Absent, StaleResponse} => Written(p)
    /\ (Len(posts) > 0 /\ pc \notin {"status", "parse"}) =>
          LET last == posts[Len(posts)]
          IN /\ (last.status # 0 /\ ~Succeeded(last.status)) =>
                   /\ exc = ProcessingError("Downstream server responded with status "
                                            \o ToString(last.status))
                   /\ pc \in {"finally", "raised", "responded"}
                   /\ LastNotRecorded
             /\ (Succeeded(last.status) /\ last.body \notin JsonResponseBodies) =>
                   /\ exc = ProcessingError("Downstream response is not valid JSON")
                   /\ pc \in {"finally", "raised", "responded"}
                   /\ LastNotRecorded

\* the second POST was answered 404 after the first response was written, and
\* the run has failed
C15_Witness ==
    /\ pc = "raised"
    /\ Len(posts) = 2
    /\ posts[2].status = 404
    /\ writes = <<ResponseOf(files[1])>>
    /\ exc = ProcessingError("Downstream server responded with status 404")
    /\ Len(processed) = 1

\* request files of one directory whose names differ only around the suffix
SiblingRequests ==
    { DataDir \o <<m \o e>> : m \in {"", "a", "a_req", "a_req3", "a_res", "a.b", "a3"},
                               e \in {"_req.json", "_req3.json"} }

\* C16: within one run each response path is written at most once: the
\* derivation '_req' -> '_res', '_req3' -> '_res3' is injective on the
\* discovered request files, so two distinct request files never write the same
\* response file and no response written in a run is overwritten later in it.
C16_ResponsePathsDistinct ==
    /\ \A i, j \in 1..Len(writes) : i # j => writes[i] # writes[j]
    /\ pc = "load" =>
          \A i, j \in 1..Len(files) : i # j => ResponseOf(files[i]) # ResponseOf(files[j])
    /\ (pc = "relay" /\ caller = "direct_owned" /\ fs = PlainTree) =>
          \A p, q \in SiblingRequests \cup RequestUniverse :
              /\ build_response_path(p).ok
              /\ p # q => build_response_path(p).path # build_response_path(q).path

\* two response files were written in one run, at different paths
C16_Witness ==
    /\ pc = "returned"
    /\ Len(writes) = 2
    /\ writes[1] = ResponseOf(files[1])
    /\ writes[2] = ResponseOf(files[2])
    /\ writes[1] # writes[2]

\* the order of the statements of one run
StepOrder ==
    << "request", "relay", "discover", "load", "route", "post", "status", "parse",
       "derive", "save", "append", "finally", "returned", "raised", "responded" >>

StepRank(p) == CHOOSE i \in 1..Len(StepOrder) : StepOrder[i] = p

\* a step moves forward within the file, or on to the next file
StepsForward ==
    \/ idx' = idx /\ StepRank(pc') > StepRank(pc)
    \/ /\ idx' = idx + 1
       /\ pc = "discover" \/ (pc = "append" /\ pc' \in {"load", "finally"})
    \/ pc' \in {"finally", "raised", "responded"} /\ pc \notin {"returned", "raised", "responded"}

\* C17: a run goes Start -> (per file: Load -> Route -> Post -> ParseResponse ->
\* Persist) -> Done with no retry and no step backwards: each discovered file
\* is POSTed at most once, the number of POSTs never exceeds the number of
\* discovered files, and, as every POST returns or raises, every run ends in
\* Done (summary returned) or Failed (error raised).
C17_RunTerminates ==
    /\ [](/\ \A i, j \in 1..Len(posts) : i # j => posts[i].file # posts[j].file
          /\ Len(posts) <= Len(files)
          /\ Len(posts) <= Cardinality(Discovered)
          /\ RunEnded => (summary.returned /\ exc = NoExc) \/ (~summary.returned /\ exc # NoExc))
    /\ [][StepsForward]_vars
    /\ (pc = "relay") ~> RunEnded

\* a run over two files POSTed each of them once and returned its summary
C17_Witness ==
    /\ pc = "returned"
    /\ Len(files) = 2
    /\ Len(posts) = 2
    /\ posts[1].file # posts[2].file
    /\ summary.returned

\* the name matches '*_req.json' or '*_req3.json'
IsRequestName(name) == EndsWith(name, "_req.json") \/ EndsWith(name, "_req3.json")

\* C18: a relay run never creates, overwrites or deletes a file whose name
\* matches a request pattern: every path it writes ends in '_res.json' or
\* '_res3.json', so the request files and the result of iter_request_files are
\* the same after any run, successful or failed, as before, and a second run
\* on the same tree processes the same files in the same order.
C18_RequestFilesUntouched ==
    /\ [](/\ \A k \in 1..Len(writes) :
                /\ EndsWith(Name(writes[k]), "_res.json") \/ EndsWith(Name(writes[k]), "_res3.json")
                /\ ~IsRequestName(Name(writes[k]))
          /\ (RunEnded /\ DiscoveryCompleted) => iter_request_files(fs, directory) = files)
    /\ [][\A p \in DOMAIN fs : IsRequestName(Name(p)) => fs'[p] = fs[p]]_vars

\* a run over two request files failed after writing one response, and the
\* tree still yields the same two request files
C18_Witness ==
    /\ pc = "raised"
    /\ Len(files) = 2
    /\ Len(writes) = 1
    /\ iter_request_files(fs, directory) = files
    /\ \A i \in 1..2 : fs[files[i]] \in RequestContents

\* C19: a failed run is not rolled back: when the run fails at the i-th file,
\* the response files of the i-1 files before it have been written and remain
\* on disk with the downstream bodies, and their POSTs have been sent, although
\* the caller receives only the error and no record of them.
C19_NoRollback ==
    (pc \in {"raised", "responded"} /\ exc # NoExc /\ idx \in 1..Len(files)) =>
        /\ \A j \in 1..(idx - 1) :
              /\ j <= Len(posts)
              /\ posts[j].file = files[j]
              /\ Persisted(j)
        /\ ~summary.returned
        /\ summary.processed_files = <<>>
        /\ pc = "responded" =>
              /\ http.status \in {500, 502}
              /\ http.processed = 0
              /\ http.responses = <<>>

\* the endpoint answered 502 for a run that failed at its second file, and
\* the response file of the first is on disk
C19_Witness ==
    /\ pc = "responded"
    /\ http.status = 502
    /\ idx = 2
    /\ Len(posts) = 2
    /\ Persisted(1)
    /\ fs[ResponseOf(files[1])] # Absent

\* C20: the routing table is unambiguous: no file name matches more than one
\* rule of _IDOU_ROUTE_RULES, so the result of resolve_post_url does not
\* depend on the order the rules are declared in.
C20_RulesUnambiguous ==
    r_pc = "returned" =>
        /\ Cardinality(MatchingRules(Name(r_path))) <= 1
        /\ \A i, j \in MatchingRules(Name(r_path)) :
              IDOU_ROUTE_RULES[i].suffix = IDOU_ROUTE_RULES[j].suffix
        /\ InIdouScope(r_base) =>
              \A i \in MatchingRules(Name(r_path)) :
                  r_result = RoutedUrl(r_base, IDOU_ROUTE_RULES[i].suffix)

\* '15_2_x_req.json' matched the last rule only and was routed by it
C20_Witness ==
    /\ r_pc = "returned"
    /\ Name(r_path) = "15_2_x_req.json"
    /\ MatchingRules(Name(r_path)) = {Len(IDOU_ROUTE_RULES)}
    /\ r_base = "http://example.com/idou/service/"
    /\ r_result = "http://example.com/idou/service/meisaiif"

====
